---- MODULE Spec2Model ----
(***************************************************************************)
(* Model of httpsig/verify.py: Verifier._verify and HeaderVerifier.        *)
(*                                                                         *)
(* Python text and byte strings are sequences of character codes, wrapped  *)
(* in a record that keeps the Python type ("str" or "bytes") where the     *)
(* code tests it.  Exceptions are outcomes [kind |-> "raise", ...].        *)
(***************************************************************************)
EXTENDS Integers, Sequences, FiniteSets, TLC

VARIABLES
    callerHeaders,  \* the mapping the caller passes as `headers`
    args,           \* the other arguments of HeaderVerifier(...)
    phase,          \* "args" | "constructed" | "failed" | "direct"
    hv,             \* the HeaderVerifier object (self)
    ctor,           \* outcome of HeaderVerifier.__init__
    last,           \* outcome of the latest HeaderVerifier.verify()
    first,          \* outcome of the first HeaderVerifier.verify()
    nverify,        \* number of verify() calls made on hv
    vobj,           \* a plain Verifier object used directly
    vcall           \* the latest direct Verifier._verify(data, signature) call

vars == <<callerHeaders, args, phase, hv, ctor, last, first, nverify, vobj, vcall>>

\* ------------------------------------------------------------------ bounds
MaxVerifyCalls == 2
NumKeys == 2

\* ----------------------------------------------------------------- strings
PyStr(c) == [t |-> "str", c |-> c]
PyBytes(c) == [t |-> "bytes", c |-> c]

sDate == <<100, 97, 116, 101>>                      \* "date"
sDateCap == <<68, 97, 116, 101>>                    \* "Date"
sDigest == <<100, 105, 103, 101, 115, 116>>         \* "digest"
sDigestUp == <<68, 73, 71, 69, 83, 84>>             \* "DIGEST"
sHost == <<104, 111, 115, 116>>                     \* "host"
sReqTarget == <<40, 114, 101, 113, 117, 101, 115, 116, 45, 116, 97, 114, 103, 101, 116, 41>>
    \* "(request-target)"
sAuthorization == <<97, 117, 116, 104, 111, 114, 105, 122, 97, 116, 105, 111, 110>>
    \* "authorization"
sAuthorizationCap == <<65, 117, 116, 104, 111, 114, 105, 122, 97, 116, 105, 111, 110>>
    \* "Authorization"
sSignature == <<83, 105, 103, 110, 97, 116, 117, 114, 101>>
    \* "Signature"
sGet == <<71, 69, 84>>                              \* "GET"
sPath == <<47, 97>>                                 \* "/a"

\* an optional argument: None, or a string
NoneOpt == [none |-> TRUE, c |-> <<>>]
Some(c) == [none |-> FALSE, c |-> c]

SeqToSet(q) == {q[i] : i \in DOMAIN q}

\* str.lower()
Lower(s) == [i \in 1..Len(s) |-> IF s[i] \in 65..90 THEN s[i] + 32 ELSE s[i]]

\* str.split(' ')
RECURSIVE SplitAcc(_, _, _)
SplitAcc(s, cur, acc) ==
    IF s = <<>> THEN Append(acc, cur)
    ELSE IF Head(s) = 32 THEN SplitAcc(Tail(s), <<>>, Append(acc, cur))
    ELSE SplitAcc(Tail(s), Append(cur, Head(s)), acc)

Split(s) == SplitAcc(s, <<>>, <<>>)

\* sep.join(list)
RECURSIVE Join(_, _)
Join(list, sep) ==
    IF list = <<>> THEN <<>>
    ELSE IF Len(list) = 1 THEN list[1]
    ELSE list[1] \o sep \o Join(Tail(list), sep)

\* x.encode("ascii") applied when x is a text string (verify.py 26-29)
IsAscii(c) == \A i \in DOMAIN c : c[i] < 128

EncodeFails(x) == x.t = "str" /\ ~IsAscii(x.c)

EncodeAscii(x) == IF x.t = "str" THEN PyBytes(x.c) ELSE x

\* ------------------------------------------------------------------ base64
B64Char(i) ==
    IF i < 26 THEN 65 + i
    ELSE IF i < 52 THEN 97 + (i - 26)
    ELSE IF i < 62 THEN 48 + (i - 52)
    ELSE IF i = 62 THEN 43 ELSE 47

B64Index(c) ==
    IF c \in 65..90 THEN c - 65
    ELSE IF c \in 97..122 THEN c - 71
    ELSE IF c \in 48..57 THEN c + 4
    ELSE IF c = 43 THEN 62
    ELSE IF c = 47 THEN 63 ELSE -1

\* base64.b64encode, the wire encoding the signing side applies
RECURSIVE b64encode(_)
b64encode(b) ==
    IF Len(b) = 0 THEN <<>>
    ELSE IF Len(b) = 1 THEN
        <<B64Char(b[1] \div 4), B64Char((b[1] % 4) * 16), 61, 61>>
    ELSE IF Len(b) = 2 THEN
        <<B64Char(b[1] \div 4), B64Char((b[1] % 4) * 16 + b[2] \div 16),
          B64Char((b[2] % 16) * 4), 61>>
    ELSE
        <<B64Char(b[1] \div 4), B64Char((b[1] % 4) * 16 + b[2] \div 16),
          B64Char((b[2] % 16) * 4 + b[3] \div 64), B64Char(b[3] % 64)>>
        \o b64encode(SubSeq(b, 4, Len(b)))

\* base64.b64decode(s) with its default validate=False: characters outside
\* the alphabet are skipped, a sufficient run of '=' ends the input, and an
\* incomplete final quad raises binascii.Error (ok = FALSE).
RECURSIVE b64scan(_, _, _, _, _, _)
b64scan(s, i, quad, pads, left, out) ==
    IF i > Len(s) THEN
        IF quad = 0 THEN [ok |-> TRUE, bytes |-> out]
        ELSE [ok |-> FALSE, bytes |-> <<>>]
    ELSE IF s[i] = 61 THEN
        IF quad >= 2 /\ quad + pads + 1 >= 4 THEN [ok |-> TRUE, bytes |-> out]
        ELSE b64scan(s, i + 1, quad, IF quad >= 2 THEN pads + 1 ELSE pads, left, out)
    ELSE IF B64Index(s[i]) = -1 THEN b64scan(s, i + 1, quad, pads, left, out)
    ELSE LET v == B64Index(s[i]) IN
        CASE quad = 0 -> b64scan(s, i + 1, 1, 0, v, out)
          [] quad = 1 -> b64scan(s, i + 1, 2, 0, v % 16, Append(out, left * 4 + v \div 16))
          [] quad = 2 -> b64scan(s, i + 1, 3, 0, v % 4, Append(out, left * 16 + v \div 4))
          [] OTHER    -> b64scan(s, i + 1, 0, 0, 0, Append(out, left * 64 + v))

b64decode(s) == b64scan(s, 1, 0, 0, 0, <<>>)

\* ------------------------------------------------- values of sign_algorithm
\* self.sign_algorithm holds a str ('rsa', 'hmac', ...), None, or an object
\* whose class derives from SignAlgorithm.  The two SignAlgorithm objects
\* differ in what they do with the signature they are handed.
StrValue(s) == [type |-> "str", val |-> s]
NoneValue == [type |-> "NoneType", val |-> "None"]
DecodingAlgorithm == [type |-> "SignAlgorithm", val |-> "decodes-base64"]
RawAlgorithm == [type |-> "SignAlgorithm", val |-> "expects-decoded"]

\* ----------------------------------------------------- outcomes of a call
\* prim: the verification primitive that ran ("none" if none did);
\* primSig: the signature value that primitive was handed.
Returns(b, prim, primSig) ==
    [kind |-> "return", value |-> IF b THEN "True" ELSE "False",
     prim |-> prim, primSig |-> primSig]

Raises(exc, prim, primSig) ==
    [kind |-> "raise", value |-> exc, prim |-> prim, primSig |-> primSig]

NoResult == [kind |-> "none", value |-> "", prim |-> "none", primSig |-> <<>>]

\* ---------------------------------------------------------- the primitives
Keys == {<<k>> : k \in 1..NumKeys}

\* The three signing primitives, as ideal (collision-free, unforgeable)
\* schemes: what the signing side produces for a key and a message.
\* Keys are one byte long, so distinct (key, message) give distinct values.
HmacDigest(secret, data) == secret \o data

RsaSignature(key, data) == <<key[1] + 100>> \o data

ExtensionSignature(key, data) == <<key[1] + 50>> \o data

\* Signer._sign_hmac(data): the keyed digest of data under self.secret
_sign_hmac(self, data) == HmacDigest(self.secret, data)

\* utils.ct_bytes_compare(a, b): unequal lengths differ; otherwise every
\* position is visited and the differences are accumulated
RECURSIVE CountDiff(_, _, _)
CountDiff(a, b, i) ==
    IF i > Len(a) THEN 0
    ELSE (IF a[i] # b[i] THEN 1 ELSE 0) + CountDiff(a, b, i + 1)

ct_bytes_compare(a, b) == IF Len(a) # Len(b) THEN FALSE ELSE CountDiff(a, b, 1) = 0

\* self._rsa.verify(h, signature) with h the digest object fed with data:
\* the public-key check of signature against data
rsa_verify(secret, data, signature) == signature = RsaSignature(secret, data)

\* SignAlgorithm.verify(public, data, signature) of a caller-supplied object
SignAlgorithm_verify(alg, secret, data, signature) ==
    IF alg.val = "decodes-base64" THEN
        LET s == b64decode(signature) IN
        IF ~s.ok THEN Raises("binascii.Error", "ext", signature)
        ELSE Returns(s.bytes = ExtensionSignature(secret, data), "ext", signature)
    ELSE Returns(signature = ExtensionSignature(secret, data), "ext", signature)

\* Variants of _verify, each with one plausible slip.
\* the keyed digest compared with the signature as it came on the wire
_verify_HmacUndecoded(self, data, signature) ==
    IF EncodeFails(data) \/ EncodeFails(signature) THEN
        Raises("UnicodeEncodeError", "none", <<>>)
    ELSE
    LET d == EncodeAscii(data).c
        sig == EncodeAscii(signature).c
    IN
    IF self.sign_algorithm = StrValue("rsa") THEN
        LET s == b64decode(sig) IN
        IF ~s.ok THEN Raises("binascii.Error", "none", <<>>)
        ELSE Returns(rsa_verify(self.secret, d, s.bytes), "rsa", s.bytes)
    ELSE IF self.sign_algorithm = StrValue("hmac") THEN
        Returns(ct_bytes_compare(_sign_hmac(self, d), sig), "hmac", sig)
    ELSE IF self.sign_algorithm.type = "SignAlgorithm" THEN
        SignAlgorithm_verify(self.sign_algorithm, self.secret, d, sig)
    ELSE
        Raises("HttpSigException: Unsupported algorithm.", "none", <<>>)

\* the signature decoded before it is handed to the SignAlgorithm object
_verify_ExtDecoded(self, data, signature) ==
    IF EncodeFails(data) \/ EncodeFails(signature) THEN
        Raises("UnicodeEncodeError", "none", <<>>)
    ELSE
    LET d == EncodeAscii(data).c
        sig == EncodeAscii(signature).c
        s == b64decode(sig)
    IN
    IF ~s.ok THEN Raises("binascii.Error", "none", <<>>)
    ELSE IF self.sign_algorithm = StrValue("rsa") THEN
        Returns(rsa_verify(self.secret, d, s.bytes), "rsa", s.bytes)
    ELSE IF self.sign_algorithm = StrValue("hmac") THEN
        Returns(ct_bytes_compare(_sign_hmac(self, d), s.bytes), "hmac", s.bytes)
    ELSE IF self.sign_algorithm.type = "SignAlgorithm" THEN
        SignAlgorithm_verify(self.sign_algorithm, self.secret, d, s.bytes)
    ELSE
        Raises("HttpSigException: Unsupported algorithm.", "none", <<>>)

\* an unknown sign_algorithm answered with False instead of an error
_verify_UnknownIsFalse(self, data, signature) ==
    IF EncodeFails(data) \/ EncodeFails(signature) THEN
        Raises("UnicodeEncodeError", "none", <<>>)
    ELSE
    LET d == EncodeAscii(data).c
        sig == EncodeAscii(signature).c
    IN
    IF self.sign_algorithm = StrValue("rsa") THEN
        LET s == b64decode(sig) IN
        IF ~s.ok THEN Raises("binascii.Error", "none", <<>>)
        ELSE Returns(rsa_verify(self.secret, d, s.bytes), "rsa", s.bytes)
    ELSE IF self.sign_algorithm = StrValue("hmac") THEN
        LET s == b64decode(sig) IN
        IF ~s.ok THEN Raises("binascii.Error", "none", <<>>)
        ELSE Returns(ct_bytes_compare(_sign_hmac(self, d), s.bytes), "hmac", s.bytes)
    ELSE IF self.sign_algorithm.type = "SignAlgorithm" THEN
        SignAlgorithm_verify(self.sign_algorithm, self.secret, d, sig)
    ELSE
        Returns(FALSE, "none", <<>>)

\* --------------------------------------------------------- Verifier._verify
_verify(self, data, signature) ==
    IF EncodeFails(data) \/ EncodeFails(signature) THEN
        Raises("UnicodeEncodeError", "none", <<>>)
    ELSE
    LET d == EncodeAscii(data).c
        sig == EncodeAscii(signature).c
    IN
    IF self.sign_algorithm = StrValue("rsa") THEN
        LET s == b64decode(sig) IN
        IF ~s.ok THEN Raises("binascii.Error", "none", <<>>)
        ELSE Returns(rsa_verify(self.secret, d, s.bytes), "rsa", s.bytes)
    ELSE IF self.sign_algorithm = StrValue("hmac") THEN
        LET h == _sign_hmac(self, d)
            s == b64decode(sig)
        IN
        IF ~s.ok THEN Raises("binascii.Error", "none", <<>>)
        ELSE Returns(ct_bytes_compare(h, s.bytes), "hmac", s.bytes)
    ELSE IF self.sign_algorithm.type = "SignAlgorithm" THEN
        SignAlgorithm_verify(self.sign_algorithm, self.secret, d, sig)
    ELSE
        Raises("HttpSigException: Unsupported algorithm.", "none", <<>>)

\* ---------------------------------------------------------- Signer.__init__
DEFAULT_ALGORITHM == "hs2019"

LegacyAlgorithms == {"hmac-sha256", "rsa-sha256"}

\* a tag outside the closed set, of the same family-digest shape
UnknownAlgorithm == "foo-sha256"

AlgorithmTags == LegacyAlgorithms \cup {DEFAULT_ALGORITHM, UnknownAlgorithm}

\* algorithm.split('-')[0]
Family(algorithm) ==
    CASE algorithm = "hmac-sha256" -> "hmac"
      [] algorithm = "rsa-sha256" -> "rsa"
      [] OTHER -> "foo"

\* The fields Signer.__init__(secret, algorithm, sign_algorithm) sets: a
\* family-digest tag fixes sign_algorithm to its family, the generic scheme
\* takes the sign_algorithm the caller supplied.
Signer_init(secret, algorithm, sign_algorithm) ==
    [secret |-> secret,
     algorithm |-> algorithm,
     sign_algorithm |-> IF algorithm = DEFAULT_ALGORITHM THEN sign_algorithm
                        ELSE StrValue(Family(algorithm))]

\* ------------------------------------------------- the header container
\* CaseInsensitiveDict(headers): a copy of the mapping, keys lower-cased
CaseInsensitiveDict(headers) ==
    [k \in {Lower(x) : x \in DOMAIN headers} |->
        headers[CHOOSE x \in DOMAIN headers : Lower(x) = k]]

\* `name in d` and d[name] of a CaseInsensitiveDict; d[name] of a name that
\* is not in d raises KeyError
HasKey(d, name) == Lower(name) \in DOMAIN d

GetItem(d, name) == d[Lower(name)]

\* -------------------------------------------- the signature parameter parser
\* The value of the signature-bearing header on the wire: an optional scheme
\* token followed by key="value" pairs.
DictOf(pairs) ==
    [k \in {pairs[i][1] : i \in DOMAIN pairs} |->
        pairs[CHOOSE i \in DOMAIN pairs :
                 /\ pairs[i][1] = k
                 /\ \A j \in DOMAIN pairs : pairs[j][1] = k => j <= i][2]]

\* utils.parse_authorization_header(value): (scheme, parameters); without a
\* scheme prefix there is no second element
parse_authorization_header(value) ==
    IF value.scheme THEN <<"Signature", DictOf(value.pairs)>>
    ELSE <<DictOf(value.pairs)>>

\* utils.parse_signature_header(value): the same grammar applied directly;
\* a scheme token in front becomes part of the first key
parse_signature_header(value) ==
    IF value.scheme /\ value.pairs # <<>> THEN
        DictOf(<<<<"Signature " \o value.pairs[1][1], value.pairs[1][2]>>>>
               \o Tail(value.pairs))
    ELSE DictOf(value.pairs)

\* ------------------------------------------------- the canonical string
LineOk(c) == [ok |-> TRUE, exc |-> "", c |-> c]
LineFails(exc) == [ok |-> FALSE, exc |-> exc, c |-> <<>>]

\* one line of the canonical string
MessageLine(name, headers, host, method, path) ==
    IF name = sReqTarget THEN
        IF method.none \/ path.none THEN LineFails("MissingContextError")
        ELSE LineOk(name \o <<58, 32>> \o Lower(method.c) \o <<32>> \o path.c)
    ELSE IF name = sHost /\ ~HasKey(headers, name) THEN
        IF host.none THEN LineFails("MissingHeaderError")
        ELSE LineOk(Lower(name) \o <<58, 32>> \o host.c)
    ELSE IF ~HasKey(headers, name) THEN LineFails("MissingHeaderError")
    ELSE LineOk(Lower(name) \o <<58, 32>> \o GetItem(headers, name))

\* utils.generate_message(names, headers, host, method, path): the lines of
\* the names in order, joined by a newline; the first failing line fails it
generate_message(names, headers, host, method, path) ==
    LET lines == [i \in DOMAIN names |->
                    MessageLine(names[i], headers, host, method, path)]
        bad == {i \in DOMAIN names : ~lines[i].ok}
    IN
    IF bad # {} THEN lines[CHOOSE i \in bad : \A j \in bad : i <= j]
    ELSE LineOk(Join([i \in DOMAIN names |-> lines[i].c], <<10>>))

\* ------------------------------------------------ HeaderVerifier.__init__
\* the required_headers argument: None, or a list of names
ReqNone == [none |-> TRUE, list |-> <<>>]
ReqList(l) == [none |-> FALSE, list |-> l]

\* variant: the required names kept in the caller's letter case
RequiredHeaders_NotLowered(required_headers) ==
    IF required_headers.none \/ required_headers.list = <<>>
    THEN <<sDate>> ELSE required_headers.list

\* required_headers = required_headers or ['date'], then lower-cased (76, 88)
RequiredHeaders(required_headers) ==
    LET given == IF required_headers.none \/ required_headers.list = <<>>
                 THEN <<sDate>> ELSE required_headers.list
    IN [i \in DOMAIN given |-> Lower(given[i])]

ParseOk(auth_dict, calls) == [ok |-> TRUE, exc |-> "", auth_dict |-> auth_dict, calls |-> calls]
ParseFails(exc, calls) == [ok |-> FALSE, exc |-> exc, auth_dict |-> <<>>, calls |-> calls]

\* lines 79-86: read the signature-bearing header and parse it
ParseSignHeader(headers, sign_header) ==
    IF Lower(sign_header) = sAuthorization THEN
        IF ~HasKey(headers, sAuthorization) THEN ParseFails("KeyError", <<>>)
        ELSE LET auth == parse_authorization_header(GetItem(headers, sAuthorization)) IN
            IF Len(auth) = 2 THEN ParseOk(auth[2], <<"parse_authorization_header">>)
            ELSE ParseFails("HttpSigException: Invalid authorization header.",
                            <<"parse_authorization_header">>)
    ELSE
        IF ~HasKey(headers, sign_header) THEN ParseFails("KeyError", <<>>)
        ELSE ParseOk(parse_signature_header(GetItem(headers, sign_header)),
                     <<"parse_signature_header">>)

\* variant: the generic scheme accepted without a sign_algorithm
AlgorithmCheck_NeverRaises(auth_dict, sign_algorithm) ==
    IF auth_dict["algorithm"] # DEFAULT_ALGORITHM THEN "advisory" ELSE "ok"

\* lines 93-96: "advisory" (the deprecation print), "raise", or "ok"
AlgorithmCheck(auth_dict, sign_algorithm) ==
    IF auth_dict["algorithm"] # DEFAULT_ALGORITHM THEN "advisory"
    ELSE IF auth_dict["algorithm"] = DEFAULT_ALGORITHM /\ sign_algorithm = NoneValue
    THEN "raise"
    ELSE "ok"

NoObject == [exists |-> FALSE]

InitRaises(exc, advisory, calls, headers) ==
    [kind |-> "raise", value |-> exc, advisory |-> advisory, calls |-> calls,
     caller |-> headers, self |-> NoObject]

\* HeaderVerifier(headers, secret, required_headers, method, path, host,
\*                sign_header, sign_algorithm)
HeaderVerifier_init(headers, a) ==
    LET hdrs == CaseInsensitiveDict(headers)
        parsed == ParseSignHeader(hdrs, a.sign_header)
    IN
    IF ~parsed.ok THEN InitRaises(parsed.exc, FALSE, parsed.calls, headers)
    ELSE IF "algorithm" \notin DOMAIN parsed.auth_dict THEN
        InitRaises("KeyError", FALSE, parsed.calls, headers)
    ELSE
    LET check == AlgorithmCheck(parsed.auth_dict, a.sign_algorithm) IN
    IF check = "raise" THEN
        InitRaises("HttpSigException: Required sign algorithm for hs2019 algorithm not set",
                   FALSE, parsed.calls, headers)
    ELSE
    LET signer == Signer_init(a.secret, parsed.auth_dict["algorithm"], a.sign_algorithm) IN
    [kind |-> "return", value |-> "", advisory |-> (check = "advisory"),
     calls |-> Append(parsed.calls, "Signer.__init__"),
     caller |-> headers,
     self |-> [exists |-> TRUE,
               headers |-> hdrs,
               auth_dict |-> parsed.auth_dict,
               required_headers |-> RequiredHeaders(a.required_headers),
               method |-> a.method,
               path |-> a.path,
               host |-> a.host,
               secret |-> signer.secret,
               algorithm |-> signer.algorithm,
               sign_algorithm |-> signer.sign_algorithm]]

\* -------------------------------------------------- HeaderVerifier.verify
\* variant: an omitted headers field read as the empty string
AuthHeaders_EmptyDefault(self) ==
    Split(IF "headers" \in DOMAIN self.auth_dict THEN self.auth_dict["headers"]
          ELSE <<>>)

\* line 110: self.auth_dict.get('headers', 'date').split(' ')
AuthHeaders(self) ==
    Split(IF "headers" \in DOMAIN self.auth_dict THEN self.auth_dict["headers"]
          ELSE sDate)

\* lines 112-114: set(self.required_headers) - set(auth_headers)
MissingHeaders(self, auth_headers) ==
    SeqToSet(self.required_headers) \ SeqToSet(auth_headers)

VerifyResult(r, missing, calls, self) ==
    [kind |-> r.kind, value |-> r.value, missing |-> missing, calls |-> calls,
     prim |-> r.prim, primSig |-> r.primSig, self |-> self]

NoVerify == VerifyResult(NoResult, {}, <<>>, NoObject)

\* Variants of verify(), each with one plausible slip.
\* the signature checked first, the required headers afterwards
HeaderVerifier_verify_CryptoFirst(self) ==
    LET auth_headers == AuthHeaders(self)
        missing == MissingHeaders(self, auth_headers)
        msg == generate_message(auth_headers, self.headers, self.host,
                                self.method, self.path)
    IN
    IF ~msg.ok THEN
        VerifyResult(Raises(msg.exc, "none", <<>>), {}, <<"generate_message">>, self)
    ELSE IF "signature" \notin DOMAIN self.auth_dict THEN
        VerifyResult(Raises("KeyError", "none", <<>>), {}, <<"generate_message">>, self)
    ELSE
    LET r == _verify(self, PyStr(msg.c), PyStr(self.auth_dict["signature"])) IN
    IF Cardinality(missing) > 0 THEN
        VerifyResult(Raises("Exception: is a required header(s)", r.prim, r.primSig),
                     missing, <<"generate_message", "_verify">>, self)
    ELSE VerifyResult(r, {}, <<"generate_message", "_verify">>, self)

\* a failure to build the canonical string reported as False
HeaderVerifier_verify_SwallowsErrors(self) ==
    LET auth_headers == AuthHeaders(self)
        missing == MissingHeaders(self, auth_headers)
    IN
    IF Cardinality(missing) > 0 THEN
        VerifyResult(Raises("Exception: is a required header(s)", "none", <<>>),
                     missing, <<>>, self)
    ELSE
    LET msg == generate_message(auth_headers, self.headers, self.host,
                                self.method, self.path)
    IN
    IF ~msg.ok THEN
        VerifyResult(Returns(FALSE, "none", <<>>), {}, <<"generate_message">>, self)
    ELSE IF "signature" \notin DOMAIN self.auth_dict THEN
        VerifyResult(Raises("KeyError", "none", <<>>), {}, <<"generate_message">>, self)
    ELSE
        VerifyResult(_verify(self, PyStr(msg.c), PyStr(self.auth_dict["signature"])),
                     {}, <<"generate_message", "_verify">>, self)

\* the headers field taken out of self.auth_dict while it is read
HeaderVerifier_verify_PopsHeaders(self) ==
    LET auth_headers == AuthHeaders(self)
        missing == MissingHeaders(self, auth_headers)
        after == [self EXCEPT !.auth_dict =
                     [k \in (DOMAIN self.auth_dict) \ {"headers"} |-> self.auth_dict[k]]]
    IN
    IF Cardinality(missing) > 0 THEN
        VerifyResult(Raises("Exception: is a required header(s)", "none", <<>>),
                     missing, <<>>, after)
    ELSE
    LET msg == generate_message(auth_headers, self.headers, self.host,
                                self.method, self.path)
    IN
    IF ~msg.ok THEN
        VerifyResult(Raises(msg.exc, "none", <<>>), {}, <<"generate_message">>, after)
    ELSE IF "signature" \notin DOMAIN self.auth_dict THEN
        VerifyResult(Raises("KeyError", "none", <<>>), {}, <<"generate_message">>, after)
    ELSE
        VerifyResult(_verify(self, PyStr(msg.c), PyStr(self.auth_dict["signature"])),
                     {}, <<"generate_message", "_verify">>, after)

\* verify(): the outcome, the collaborators invoked in order, and the object
\* as the call leaves it
HeaderVerifier_verify(self) ==
    LET auth_headers == AuthHeaders(self)
        missing == MissingHeaders(self, auth_headers)
    IN
    IF Cardinality(missing) > 0 THEN
        VerifyResult(Raises("Exception: is a required header(s)", "none", <<>>),
                     missing, <<>>, self)
    ELSE
    LET msg == generate_message(auth_headers, self.headers, self.host,
                                self.method, self.path)
    IN
    IF ~msg.ok THEN
        VerifyResult(Raises(msg.exc, "none", <<>>), {}, <<"generate_message">>, self)
    ELSE IF "signature" \notin DOMAIN self.auth_dict THEN
        VerifyResult(Raises("KeyError", "none", <<>>), {}, <<"generate_message">>, self)
    ELSE
        VerifyResult(_verify(self, PyStr(msg.c), PyStr(self.auth_dict["signature"])),
                     {}, <<"generate_message", "_verify">>, self)

\* ------------------------------------------------------------ the requests
valT == <<84>>      \* "T", a Date value
valD == <<68>>      \* "D", a Digest value
valH == <<104>>     \* "h", a host
keyIdK == <<107>>   \* "k"

\* the request's ordinary headers, with the method, path and host the
\* caller passes along with them
Bases ==
    { [headers |-> (sDateCap :> valT),
       method |-> NoneOpt, path |-> NoneOpt, host |-> NoneOpt],
      [headers |-> (sDate :> valT) @@ (sDigest :> valD),
       method |-> Some(sGet), path |-> Some(sPath), host |-> Some(valH)] }

\* the `headers` field of the signature parameters: omitted, or a
\* space-separated list
HeadersFields ==
    { [present |-> FALSE, c |-> <<>>],
      [present |-> TRUE, c |-> sDate],
      [present |-> TRUE, c |-> Join(<<sDate, sDigest>>, <<32>>)],
      [present |-> TRUE, c |-> Join(<<sReqTarget, sHost>>, <<32>>)] }

SignatureKinds == {"hmac-own", "hmac-other", "rsa-own", "ext-own", "truncated"}

OwnKey == <<1>>
OtherKey == <<NumKeys>>

\* what the signing side signs for these signature parameters
SignedMessage(base, hf) ==
    LET m == generate_message(Split(IF hf.present THEN hf.c ELSE sDate),
                              CaseInsensitiveDict(base.headers),
                              base.host, base.method, base.path)
    IN IF m.ok THEN m.c ELSE <<>>

\* the `signature` field on the wire
WireSignature(kind, msg) ==
    CASE kind = "hmac-own" -> b64encode(HmacDigest(OwnKey, msg))
      [] kind = "hmac-other" -> b64encode(HmacDigest(OtherKey, msg))
      [] kind = "rsa-own" -> b64encode(RsaSignature(OwnKey, msg))
      [] kind = "ext-own" -> b64encode(ExtensionSignature(OwnKey, msg))
      [] OTHER -> <<65>>

WireValue(scheme, algorithm, hf, signature) ==
    [scheme |-> scheme,
     pairs |-> <<<<"keyId", keyIdK>>, <<"algorithm", algorithm>>>>
               \o (IF hf.present THEN <<<<"headers", hf.c>>>> ELSE <<>>)
               \o <<<<"signature", signature>>>>]

WireValues(base) ==
    { WireValue(scheme, algorithm, hf, WireSignature(kind, SignedMessage(base, hf))) :
        scheme \in BOOLEAN, algorithm \in AlgorithmTags,
        hf \in HeadersFields, kind \in SignatureKinds }

\* the mapping the caller passes: the ordinary headers, with the
\* signature-bearing header under one of two names, or without it
CallerHeaderSets(base) ==
    {base.headers}
    \cup { base.headers @@ (name :> w) :
             name \in {sAuthorizationCap, sSignature}, w \in WireValues(base) }

RequiredHeaderArgs ==
    {ReqNone, ReqList(<<>>), ReqList(<<sDateCap, sDigestUp>>), ReqList(<<sHost>>)}

SignHeaderArgs == {sAuthorizationCap, Lower(sSignature)}

SignAlgorithmArgs == {NoneValue, DecodingAlgorithm, RawAlgorithm}

Args(base, required_headers, sign_header, sign_algorithm) ==
    [secret |-> OwnKey,
     required_headers |-> required_headers,
     method |-> base.method,
     path |-> base.path,
     host |-> base.host,
     sign_header |-> sign_header,
     sign_algorithm |-> sign_algorithm]

NoArgs == Args([method |-> NoneOpt, path |-> NoneOpt, host |-> NoneOpt],
               ReqNone, sAuthorization, NoneValue)

NoCtor == [kind |-> "none", value |-> "", advisory |-> FALSE, calls |-> <<>>]

\* ------------------------------------------------- direct use of a Verifier
Payloads == {<<100, 58, 84>>, <<100, 58, 85>>}      \* "d:T", "d:U"

DirectData ==
    {PyStr(c) : c \in Payloads} \cup {PyBytes(<<100, 58, 84>>), PyStr(<<233>>)}

DirectSignatures ==
    {PyStr(b64encode(HmacDigest(k, c))) : k \in Keys, c \in Payloads}
    \cup {PyStr(b64encode(RsaSignature(k, c))) : k \in Keys, c \in Payloads}
    \cup {PyStr(b64encode(ExtensionSignature(k, c))) : k \in Keys, c \in Payloads}
    \cup {PyStr(ExtensionSignature(k, c)) : k \in Keys, c \in Payloads}
    \cup {PyBytes(b64encode(HmacDigest(<<1>>, <<100, 58, 84>>))),
          PyStr(<<65>>), PyStr(<<>>), PyStr(<<233>>)}

Verifiers ==
    {Signer_init(k, algorithm, sa) :
        k \in Keys, algorithm \in AlgorithmTags, sa \in SignAlgorithmArgs}

NoCall == [data |-> PyBytes(<<>>), signature |-> PyBytes(<<>>), res |-> NoResult]

\* ------------------------------------------------------------ the machine
Init ==
    /\ \E base \in Bases :
        /\ callerHeaders \in CallerHeaderSets(base)
        /\ \E rh \in RequiredHeaderArgs, sh \in SignHeaderArgs, sa \in SignAlgorithmArgs :
              args = Args(base, rh, sh, sa)
    /\ phase = "args"
    /\ hv = NoObject
    /\ ctor = NoCtor
    /\ last = NoVerify
    /\ first = NoVerify
    /\ nverify = 0
    /\ vobj = NoObject
    /\ vcall = NoCall

\* HeaderVerifier(headers, secret, ...) is called
Construct ==
    /\ phase = "args"
    /\ LET r == HeaderVerifier_init(callerHeaders, args) IN
        /\ ctor' = [kind |-> r.kind, value |-> r.value,
                    advisory |-> r.advisory, calls |-> r.calls]
        /\ hv' = r.self
        /\ callerHeaders' = r.caller
        /\ phase' = IF r.kind = "return" THEN "constructed" ELSE "failed"
    /\ UNCHANGED <<args, last, first, nverify, vobj, vcall>>

\* hv.verify() is called
Verify ==
    /\ phase = "constructed"
    /\ nverify < MaxVerifyCalls
    /\ LET r == HeaderVerifier_verify(hv)
           out == [r EXCEPT !.self = NoObject]
       IN
        /\ last' = out
        /\ first' = IF nverify = 0 THEN out ELSE first
        /\ hv' = r.self
    /\ nverify' = nverify + 1
    /\ UNCHANGED <<callerHeaders, args, phase, ctor, vobj, vcall>>

Next == Construct \/ Verify

Spec == Init /\ [][Next]_vars

\* A Verifier used on its own: _verify(data, signature) is called
InitVerifier ==
    /\ callerHeaders = <<>>
    /\ args = NoArgs
    /\ phase = "direct"
    /\ hv = NoObject
    /\ ctor = NoCtor
    /\ last = NoVerify
    /\ first = NoVerify
    /\ nverify = 0
    /\ vobj \in Verifiers
    /\ vcall = NoCall

DirectVerify ==
    /\ phase = "direct"
    /\ \E data \in DirectData, signature \in DirectSignatures :
          vcall' = [data |-> data, signature |-> signature,
                    res |-> _verify(vobj, data, signature)]
    /\ UNCHANGED <<callerHeaders, args, phase, hv, ctor, last, first, nverify, vobj>>

NextVerifier == DirectVerify

SpecVerifier == InitVerifier /\ [][NextVerifier]_vars

\* ================================================================= claims
PolicyError == "Exception: is a required header(s)"
ConfigError == "HttpSigException: Required sign algorithm for hs2019 algorithm not set"
InvalidAuthorization == "HttpSigException: Invalid authorization header."
UnsupportedAlgorithm == "HttpSigException: Unsupported algorithm."

Verified == phase = "constructed" /\ nverify > 0

\* C1: whenever a required header is not in the signed headers list of the
\* parsed parameters, verify() fails with the policy error naming the
\* missing headers, and neither generate_message nor _verify (nor any
\* verification primitive) was invoked in that call.
C1_PolicyBeforeCrypto ==
    Verified =>
        LET missing == SeqToSet(hv.required_headers) \ SeqToSet(AuthHeaders(hv)) IN
        missing # {} =>
            /\ last.kind = "raise"
            /\ last.value = PolicyError
            /\ last.missing = missing
            /\ "generate_message" \notin SeqToSet(last.calls)
            /\ "_verify" \notin SeqToSet(last.calls)
            /\ last.prim = "none"

\* required {date, digest} against signed headers [date]
C1_Witness ==
    /\ Verified
    /\ hv.required_headers = <<sDate, sDigest>>
    /\ AuthHeaders(hv) = <<sDate>>
    /\ last.value = PolicyError
    /\ last.missing = {sDigest}

\* C2: with the HMAC family, for every secret and data of the bounded sets,
\* _verify(data, signature) on the base64 encoding of a keyed digest returns
\* True when the digest is of this data under the verifier's secret, and
\* returns False (it does not raise) when it is of other data or under
\* another secret.
C2_HmacRoundTrip ==
    (vcall.res.kind # "none" /\ vobj.sign_algorithm = StrValue("hmac")
        /\ ~EncodeFails(vcall.data)) =>
        \A k \in Keys, c \in Payloads :
            vcall.signature.c = b64encode(HmacDigest(k, c)) =>
                /\ vcall.res.kind = "return"
                /\ vcall.res.value =
                      IF k = vobj.secret /\ c = vcall.data.c THEN "True" ELSE "False"

C2_Witness ==
    /\ vobj.sign_algorithm = StrValue("hmac")
    /\ vcall.data.t = "str"
    /\ vcall.signature = PyStr(b64encode(HmacDigest(vobj.secret, vcall.data.c)))
    /\ vcall.res.kind = "return"
    /\ vcall.res.value = "True"

\* C3: construction fails with the configuration error exactly when the
\* signature parameters parse, declare the generic scheme, and no
\* sign_algorithm was supplied; then no verifier exists and verify() never
\* produces anything.  A legacy family-digest tag only sets the advisory and
\* construction goes on to Signer.__init__, with or without a sign_algorithm.
C3_ConfigErrorExactly ==
    phase \in {"constructed", "failed"} =>
        LET parsed == ParseSignHeader(CaseInsensitiveDict(callerHeaders), args.sign_header)
            generic == parsed.ok /\ parsed.auth_dict["algorithm"] = DEFAULT_ALGORITHM
            legacy == parsed.ok /\ parsed.auth_dict["algorithm"] \in LegacyAlgorithms
        IN
        /\ (ctor.kind = "raise" /\ ctor.value = ConfigError)
              <=> (generic /\ args.sign_algorithm = NoneValue)
        /\ (ctor.kind = "raise") =>
              (phase = "failed" /\ hv = NoObject /\ nverify = 0 /\ last.kind = "none"
               /\ "Signer.__init__" \notin SeqToSet(ctor.calls))
        /\ legacy =>
              /\ ctor.advisory
              /\ ctor.value # ConfigError
              /\ ctor.calls # <<>>
              /\ ctor.calls[Len(ctor.calls)] = "Signer.__init__"
        /\ (generic /\ ctor.kind = "return") => ~ctor.advisory

C3_Witness ==
    /\ phase = "failed"
    /\ ctor.value = ConfigError
    /\ args.sign_algorithm = NoneValue
    /\ hv = NoObject

\* C4: when the parsed parameters have no headers field, verify() works on
\* the signed headers list ["date"], and its outcome is the outcome for the
\* same verifier whose parameters declare headers="date".
C4_DefaultHeadersIsDate ==
    (Verified /\ "headers" \notin DOMAIN hv.auth_dict) =>
        LET twin == [hv EXCEPT !.auth_dict = ("headers" :> sDate) @@ hv.auth_dict]
            r == HeaderVerifier_verify(twin)
        IN
        /\ AuthHeaders(hv) = <<sDate>>
        /\ last.kind = r.kind
        /\ last.value = r.value
        /\ last.missing = r.missing
        /\ last.calls = r.calls
        /\ last.prim = r.prim
        /\ last.primSig = r.primSig

C4_Witness ==
    /\ Verified
    /\ "headers" \notin DOMAIN hv.auth_dict
    /\ last.kind = "return"
    /\ last.value = "True"

\* C5: with `authorization` as the signature-bearing header, construction
\* fails with the library's HttpSigException ("Invalid authorization
\* header.") both when the value has no scheme prefix and when the header is
\* absent from the supplied headers.
C5_ParseErrorClass ==
    (phase \in {"constructed", "failed"} /\ Lower(args.sign_header) = sAuthorization) =>
        LET hdrs == CaseInsensitiveDict(callerHeaders) IN
        (~HasKey(hdrs, sAuthorization) \/ ~GetItem(hdrs, sAuthorization).scheme) =>
            /\ phase = "failed"
            /\ ctor.kind = "raise"
            /\ ctor.value = InvalidAuthorization

\* C6: a boolean returned by verify() is the value _verify returns for the
\* canonical string and the declared signature; when the required-header
\* check, the canonical string or _verify fails, verify() raises; when
\* construction fails there is no outcome of verify() at all.
C6_ResultIsDispatchResult ==
    /\ phase = "failed" => (last.kind = "none" /\ nverify = 0)
    /\ Verified =>
        LET signed == AuthHeaders(hv)
            policyOk == SeqToSet(hv.required_headers) \subseteq SeqToSet(signed)
            msg == generate_message(signed, hv.headers, hv.host, hv.method, hv.path)
        IN
        /\ last.kind \in {"return", "raise"}
        /\ last.kind = "return" => last.value \in {"True", "False"}
        /\ ~policyOk => (last.kind = "raise" /\ last.value = PolicyError)
        /\ (policyOk /\ ~msg.ok) => (last.kind = "raise" /\ last.value = msg.exc)
        /\ (policyOk /\ msg.ok) =>
              LET r == _verify(hv, PyStr(msg.c), PyStr(hv.auth_dict["signature"])) IN
              /\ last.kind = r.kind
              /\ last.value = r.value

C6_Witness ==
    /\ Verified
    /\ last.kind = "return"
    /\ last.value = "False"
    /\ last.calls = <<"generate_message", "_verify">>

C8_DispatchBranches ==
    (vcall.res.kind # "none" /\ ~EncodeFails(vcall.data) /\ ~EncodeFails(vcall.signature)) =>
        LET sa == vobj.sign_algorithm
            branch == IF sa = StrValue("rsa") THEN "rsa"
                      ELSE IF sa = StrValue("hmac") THEN "hmac"
                      ELSE IF sa.type = "SignAlgorithm" THEN "ext"
                      ELSE "none"
        IN
        /\ vcall.res.prim \in {branch, "none"}
        /\ vcall.res.kind = "return" => (vcall.res.prim = branch /\ branch # "none")
        /\ branch = "ext" => vcall.res.prim = "ext"
        /\ branch = "none" =>
              (vcall.res.kind = "raise" /\ vcall.res.value = UnsupportedAlgorithm)
        /\ (branch # "none" /\ vcall.res.kind = "raise") =>
              vcall.res.value = "binascii.Error"

C8_Witness ==
    /\ vobj.sign_algorithm = StrValue("foo")
    /\ vcall.res.kind = "raise"
    /\ vcall.res.value = UnsupportedAlgorithm
    /\ vcall.res.prim = "none"

\* C9: without required_headers the verifier requires ['date'], so verify()
\* on a signed headers list without 'date' fails with the policy error; a
\* required name given in any letter case is satisfied exactly when its
\* lower-case form is in the signed headers list.
C9_RequiredDefaultAndCase ==
    Verified =>
        LET signed == SeqToSet(AuthHeaders(hv))
            given == args.required_headers.list
        IN
        /\ args.required_headers.none =>
              /\ hv.required_headers = <<sDate>>
              /\ sDate \notin signed =>
                    (last.kind = "raise" /\ last.value = PolicyError
                     /\ last.missing = {sDate})
        /\ \A i \in DOMAIN given :
              (Lower(given[i]) \in signed) <=> (Lower(given[i]) \notin last.missing)
        /\ (last.kind = "raise" /\ last.value = PolicyError) <=> (last.missing # {})

C9_Witness ==
    /\ Verified
    /\ args.required_headers = ReqList(<<sDateCap, sDigestUp>>)
    /\ SeqToSet(AuthHeaders(hv)) = {sDate, sDigest}
    /\ last.missing = {}
    /\ last.kind = "return"

\* C10: construction and verify() leave the caller's header mapping as it
\* was; verify() leaves every field of the verifier as it was; every
\* verify() call has the outcome of the first one.
C10_NothingMutated ==
    [][ /\ callerHeaders' = callerHeaders
        /\ nverify' # nverify =>
              /\ hv' = hv
              /\ first' = (IF nverify = 0 THEN last' ELSE first)
              /\ last' = first' ]_vars

C10_Witness ==
    /\ Verified
    /\ nverify = MaxVerifyCalls
    /\ last = first
    /\ last.kind = "raise"
    /\ last.value = "MissingHeaderError"

====
